---- MODULE Spec2Model ----
(***************************************************************************)
(* Model of subiquity/models/actions.py: the network actions, the storage  *)
(* actions and the preserve/release transforms on serialized actions.      *)
(*                                                                         *)
(* Python strings that the code builds, slices or tests by prefix are      *)
(* sequences of one-character strings, so that "{}{}_part".format, [:11]   *)
(* and startswith are computed as the code computes them.  Values carry    *)
(* their Python type in a tag: IntV(n), StrV(s), NoneV, TrueV, FalseV.  *)
(***************************************************************************)
EXTENDS Integers, Sequences, FiniteSets, TLC

VARIABLES
    nodes,      \* storage action objects constructed so far, by creation order
    netnode,    \* the network action object the caller holds (or NoNode)
    heap,       \* the dict objects the caller holds, by address
    last        \* the call in progress: its arguments and how it ended

vars == <<nodes, netnode, heap, last>>

\* ---------------------------------------------------------------- bounds

\* storage action objects the caller constructs in one run
MaxNodes == 3
\* dict objects on the heap in one run
MaxObjs == 6

\* ---------------------------------------------------------------- values

IntV(n) == [t |-> "int", v |-> n]
StrV(s) == [t |-> "str", v |-> s]
NoneV == [t |-> "none", v |-> 0]
TrueV == [t |-> "bool", v |-> 1]
FalseV == [t |-> "bool", v |-> 0]
\* a reference to the storage action object nodes[i]
Ref(i) == [t |-> "ref", v |-> i]

Min(a, b) == IF a < b THEN a ELSE b

DigitChars == <<"0", "1", "2", "3", "4", "5", "6", "7", "8", "9">>

RECURSIVE StrNat(_)
StrNat(n) ==
    IF n < 10 THEN <<DigitChars[n + 1]>>
    ELSE StrNat(n \div 10) \o <<DigitChars[(n % 10) + 1]>>

\* str(n) and "{}".format(n) of a Python int
StrInt(n) == IF n < 0 THEN <<"-">> \o StrNat(0 - n) ELSE StrNat(n)

IsDigit(c) == \E d \in 1..10 : DigitChars[d] = c

DigitVal(c) == (CHOOSE d \in 1..10 : DigitChars[d] = c) - 1

RECURSIVE ParseNat(_)
ParseNat(s) ==
    IF Len(s) = 0 THEN 0
    ELSE ParseNat(SubSeq(s, 1, Len(s) - 1)) * 10 + DigitVal(s[Len(s)])

\* int(x): an int is itself, a string of decimal digits is parsed, any other
\* string is a ValueError and None is a TypeError
PyInt(x) ==
    CASE x.t = "int" -> [status |-> "ok", v |-> x.v]
      [] x.t = "str" ->
            IF Len(x.v) > 0 /\ \A i \in 1..Len(x.v) : IsDigit(x.v[i])
            THEN [status |-> "ok", v |-> ParseNat(x.v)]
            ELSE [status |-> "ValueError", v |-> 0]
      [] OTHER -> [status |-> "TypeError", v |-> 0]

\* str(x) of a value
PyStr(x) ==
    CASE x.t = "int" -> StrInt(x.v)
      [] x.t = "str" -> x.v
      [] OTHER -> <<"N", "o", "n", "e">>

\* s.startswith(p)
StartsWith(s, p) == Len(s) >= Len(p) /\ SubSeq(s, 1, Len(p)) = p

\* s[:n]
Prefix(s, n) == SubSeq(s, 1, Min(n, Len(s)))

\* ------------------------------------------------------- string literals

L_part == <<"_", "p", "a", "r", "t">>
L_fmt == <<"_", "f", "m", "t">>
L_mnt == <<"_", "m", "n", "t">>
L_B == <<"B">>
L_bcache == <<"b", "c", "a", "c", "h", "e">>
L_bios_grub == <<"b", "i", "o", "s", "_", "g", "r", "u", "b">>
L_bios_boot_partition ==
    <<"b", "i", "o", "s", "_", "b", "o", "o", "t", "_",
      "p", "a", "r", "t", "i", "t", "i", "o", "n">>
L_fat == <<"f", "a", "t">>
L_linux_swap == <<"l", "i", "n", "u", "x", "-", "s", "w", "a", "p">>
L_swap == <<"s", "w", "a", "p">>
L_gpt == <<"g", "p", "t">>
L_disk == <<"d", "i", "s", "k">>
L_partition == <<"p", "a", "r", "t", "i", "t", "i", "o", "n">>
L_format == <<"f", "o", "r", "m", "a", "t">>
L_mount == <<"m", "o", "u", "n", "t">>

\* the length a fat filesystem's id is cut to
FatIdLen == 11

\* ------------------------------------------------------- storage actions
\* A storage action object is [kind, attrs]: attrs is the instance's
\* attribute dictionary.  The caller refers to nodes[i] by Ref(i); NoneV is
\* an object with no action_id and no parent attribute.

\* mutant: an object without the accessor yields an empty id instead of raising
action_id_Lenient(obj) ==
    IF obj.t = "ref"
    THEN [status |-> "ok", v |-> PyStr(nodes[obj.v].attrs["_action_id"])]
    ELSE [status |-> "ok", v |-> <<>>]

\* obj.action_id (DiskAction's property, inherited by every storage action)
action_id(obj) ==
    IF obj.t = "ref"
    THEN [status |-> "ok", v |-> PyStr(nodes[obj.v].attrs["_action_id"])]
    ELSE [status |-> "AttributeError", v |-> <<>>]

\* obj.parent
parent_of(obj) ==
    IF obj.t = "ref"
    THEN [status |-> "ok", v |-> nodes[obj.v].attrs["parent"]]
    ELSE [status |-> "AttributeError", v |-> NoneV]

Raise(e) == [status |-> e, msg |-> <<>>, attrs |-> <<>>]

\* raise Exception(fmt.format(self.__class__.__name__))
RaiseMsg(fmt, cls) == [status |-> "Exception", msg |-> <<fmt, cls>>, attrs |-> <<>>]

Built(attrs) == [status |-> "ok", msg |-> <<>>, attrs |-> attrs]

\* DiskAction.__init__(action_id, model, serial, ptable='gpt', wipe=None)
DiskInit(id, model, serial, ptable, wipe) ==
    Built(
     [k \in {"_action_id", "parent", "_ptable", "_model", "_serial", "_wipe"} |->
                  CASE k = "_action_id" -> id
                    [] k = "parent" -> NoneV
                    [] k = "_ptable" -> ptable
                    [] k = "_model" -> model
                    [] k = "_serial" -> serial
                    [] OTHER -> wipe])

\* mutant: the bios_grub rename is missing
PartitionActionId_NoRename(parentId, partnum, flags) ==
    parentId \o StrInt(partnum) \o L_part

\* "{}{}_part".format(parent.action_id, partnum), renamed for bios_grub
PartitionActionId(parentId, partnum, flags) ==
    IF flags \in {StrV(L_bios_grub)}
    THEN L_bios_boot_partition
    ELSE parentId \o StrInt(partnum) \o L_part

\* mutant: the geometry is stored as supplied, without int()
PartitionInit_NoCoerce(parent, partnum, offset, size, flags) ==
    LET pid == action_id(parent)
    IN  IF pid.status # "ok" THEN Raise(pid.status)
        ELSE Built(
              [k \in {"_action_id", "parent", "partnum", "_offset", "_size", "flags"} |->
                  CASE k = "_action_id" ->
                          StrV(PartitionActionId(pid.v, PyInt(partnum).v, flags))
                    [] k = "parent" -> parent
                    [] k = "partnum" -> partnum
                    [] k = "_offset" -> offset
                    [] k = "_size" -> size
                    [] OTHER -> flags])

\* PartitionAction.__init__(parent, partnum, offset, size, flags=None)
PartitionInit(parent, partnum, offset, size, flags) ==
    LET pn == PyInt(partnum)
        off == PyInt(offset)
        sz == PyInt(size)
        pid == action_id(parent)
    IN  IF pn.status # "ok" THEN Raise(pn.status)
        ELSE IF off.status # "ok" THEN Raise(off.status)
        ELSE IF sz.status # "ok" THEN Raise(sz.status)
        ELSE IF pid.status # "ok" THEN Raise(pid.status)
        ELSE Built(
              [k \in {"_action_id", "parent", "partnum", "_offset", "_size", "flags"} |->
                  CASE k = "_action_id" -> StrV(PartitionActionId(pid.v, pn.v, flags))
                    [] k = "parent" -> parent
                    [] k = "partnum" -> IntV(pn.v)
                    [] k = "_offset" -> IntV(off.v)
                    [] k = "_size" -> IntV(sz.v)
                    [] OTHER -> flags])

\* mutant: the device's own id is taken instead of its parent's
UnderlyingId_Own(dev) == action_id(dev)

\* backing_id.parent.action_id
UnderlyingId(dev) ==
    LET p == parent_of(dev)
    IN  IF p.status # "ok" THEN [status |-> p.status, v |-> <<>>]
        ELSE action_id(p.v)

\* "bcache" + str(bcache_num)
BcacheActionId(bcache_num) == L_bcache \o PyStr(bcache_num)

\* BcacheAction.__init__(backing_id, cache_id, bcache_num)
BcacheInit(backing_id, cache_id, bcache_num) ==
    LET bn == PyInt(bcache_num)
        bd == UnderlyingId(backing_id)
        cd == UnderlyingId(cache_id)
    IN  IF bn.status # "ok" THEN Raise(bn.status)
        ELSE IF bd.status # "ok" THEN Raise(bd.status)
        ELSE IF cd.status # "ok" THEN Raise(cd.status)
        ELSE Built(
              [k \in {"_action_id", "parent", "bcachenum", "backing_device", "cache_device"} |->
                  CASE k = "_action_id" -> StrV(BcacheActionId(bcache_num))
                    [] k = "parent" -> NoneV
                    [] k = "bcachenum" -> IntV(bn.v)
                    [] k = "backing_device" -> StrV(bd.v)
                    [] OTHER -> StrV(cd.v)])

\* mutant: the id of a fat filesystem is not cut
FormatActionId_NoCut(parentId, fstype) == parentId \o L_fmt

\* "{}_fmt".format(parent.action_id), cut to 11 characters for a fat fstype
FormatActionId(parentId, fstype) ==
    IF StartsWith(fstype, L_fat)
    THEN Prefix(parentId \o L_fmt, FatIdLen)
    ELSE parentId \o L_fmt

\* the fstype stored: 'swap' for linux-swap*, unless the fat branch was taken
FormatFstype(fstype) ==
    IF StartsWith(fstype, L_fat) THEN fstype
    ELSE IF StartsWith(fstype, L_linux_swap) THEN L_swap
    ELSE fstype

\* FormatAction.__init__(parent, fstype)
FormatInit(parent, fstype) ==
    LET pid == action_id(parent)
    IN  IF pid.status # "ok" THEN Raise(pid.status)
        ELSE Built(
              [k \in {"_action_id", "parent", "_fstype"} |->
                  CASE k = "_action_id" -> StrV(FormatActionId(pid.v, fstype.v))
                    [] k = "parent" -> parent
                    [] OTHER -> StrV(FormatFstype(fstype.v))])

\* "{}_mnt".format(parent.action_id)
MountActionId(parentId) == parentId \o L_mnt

\* MountAction.__init__(parent, path)
MountInit(parent, path) ==
    LET pid == action_id(parent)
    IN  IF pid.status # "ok" THEN Raise(pid.status)
        ELSE Built(
              [k \in {"_action_id", "parent", "_path"} |->
                  CASE k = "_action_id" -> StrV(MountActionId(pid.v))
                    [] k = "parent" -> parent
                    [] OTHER -> path])

\* the truth value of a Python object
Truthy(x) ==
    CASE x.t = "none" -> FALSE
      [] x.t = "str" -> Len(x.v) > 0
      [] OTHER -> x.v # 0

NoResult == [status |-> "none", v |-> <<>>]
Returns(m) == [status |-> "ok", v |-> m]

\* DiskAction.get
DiskGet(self) ==
    LET a == self.attrs
        base == [k \in {"id", "model", "ptable", "serial", "type"} |->
                  CASE k = "id" -> StrV(PyStr(a["_action_id"]))
                    [] k = "model" -> a["_model"]
                    [] k = "ptable" -> a["_ptable"]
                    [] k = "serial" -> a["_serial"]
                    [] OTHER -> StrV(L_disk)]
    IN  Returns(IF Truthy(a["_wipe"])
                THEN [k \in DOMAIN base \cup {"wipe"} |->
                        IF k = "wipe" THEN a["_wipe"] ELSE base[k]]
                ELSE base)

\* PartitionAction.get
PartitionGet(self) ==
    LET a == self.attrs
        pid == action_id(a["parent"])
    IN  IF pid.status # "ok" THEN [status |-> pid.status, v |-> <<>>]
        ELSE Returns([k \in {"device", "flag", "id", "number", "size", "offset", "type"} |->
                  CASE k = "device" -> StrV(pid.v)
                    [] k = "flag" -> a["flags"]
                    [] k = "id" -> StrV(PyStr(a["_action_id"]))
                    [] k = "number" -> a["partnum"]
                    [] k = "size" -> StrV(StrInt(a["_size"].v) \o L_B)
                    [] k = "offset" -> StrV(StrInt(a["_offset"].v) \o L_B)
                    [] OTHER -> StrV(L_partition)])

\* BcacheAction.get
BcacheGet(self) ==
    LET a == self.attrs
    IN  Returns([k \in {"backing_device", "cache_device", "id", "type"} |->
                  CASE k = "backing_device" -> a["backing_device"]
                    [] k = "cache_device" -> a["cache_device"]
                    [] k = "id" -> StrV(PyStr(a["_action_id"]))
                    [] OTHER -> StrV(L_bcache)])

\* FormatAction.get
FormatGet(self) ==
    LET a == self.attrs
        pid == action_id(a["parent"])
    IN  IF pid.status # "ok" THEN [status |-> pid.status, v |-> <<>>]
        ELSE Returns([k \in {"volume", "id", "fstype", "type"} |->
                  CASE k = "volume" -> StrV(pid.v)
                    [] k = "id" -> StrV(PyStr(a["_action_id"]))
                    [] k = "fstype" -> a["_fstype"]
                    [] OTHER -> StrV(L_format)])

\* MountAction.get
MountGet(self) ==
    LET a == self.attrs
        pid == action_id(a["parent"])
    IN  IF pid.status # "ok" THEN [status |-> pid.status, v |-> <<>>]
        ELSE Returns([k \in {"device", "id", "path", "type"} |->
                  CASE k = "device" -> StrV(pid.v)
                    [] k = "id" -> StrV(PyStr(a["_action_id"]))
                    [] k = "path" -> a["_path"]
                    [] OTHER -> StrV(L_mount)])

\* node.get(), dispatched on the node's class
StorageGet(self) ==
    CASE self.kind = "disk" -> DiskGet(self)
      [] self.kind = "partition" -> PartitionGet(self)
      [] self.kind = "bcache" -> BcacheGet(self)
      [] self.kind = "format" -> FormatGet(self)
      [] OTHER -> MountGet(self)


\* ------------------------------------------------------- network actions
\* A network action object is [kind, attrs]: kind is its class, attrs its
\* instance dictionary (the options set as attributes, and _action_keys).
\* An option bag is a function from the option names supplied to values.

ListV(s) == [t |-> "list", v |-> s]

InList(k, l) == \E i \in 1..Len(l.v) : l.v[i] = k

\* d with d[k] = v set (added or overwritten)
SetItem(d, k, v) == [x \in DOMAIN d \cup {k} |-> IF x = k THEN v ELSE d[x]]

\* NetAction.__init__: every option becomes an attribute, then _action_keys
\* is set to the base keys
NetActionInit(options) ==
    SetItem(options, "_action_keys", ListV(<<"type", "name", "params", "subnets">>))

\* mutant: every attribute of the instance is returned
NetActionGet_Unfiltered(self) ==
    Returns(self.attrs)

\* NetAction.get
NetActionGet(self) ==
    Returns([k \in {x \in DOMAIN self.attrs : InList(x, self.attrs["_action_keys"])} |->
                self.attrs[k]])

\* mutant: the name is checked before the type
VariantInit_NameFirst(cls, literal, required, reqfmt, extension, options) ==
    IF "name" \notin DOMAIN options \/ Len(options["name"].v) = 0
    THEN RaiseMsg("Invalid name for {}", cls)
    ELSE IF "type" \notin DOMAIN options \/ options["type"] # StrV(literal)
    THEN RaiseMsg("Invalid type for {}", cls)
    ELSE IF \E k \in required : k \notin DOMAIN options
    THEN RaiseMsg(reqfmt, cls)
    ELSE LET a == NetActionInit(options)
         IN  Built(SetItem(a, "_action_keys",
                           ListV(a["_action_keys"].v \o extension)))

\* The body the four variants' __init__ share: the type check, the name check,
\* the required-field check, NetAction.__init__, then the extension of
\* _action_keys
VariantInit(cls, literal, required, reqfmt, extension, options) ==
    IF "type" \notin DOMAIN options \/ options["type"] # StrV(literal)
    THEN RaiseMsg("Invalid type for {}", cls)
    ELSE IF "name" \notin DOMAIN options \/ Len(options["name"].v) = 0
    THEN RaiseMsg("Invalid name for {}", cls)
    ELSE IF \E k \in required : k \notin DOMAIN options
    THEN RaiseMsg(reqfmt, cls)
    ELSE LET a == NetActionInit(options)
         IN  Built(SetItem(a, "_action_keys",
                           ListV(a["_action_keys"].v \o extension)))

L_physical == <<"p", "h", "y", "s", "i", "c", "a", "l">>
L_bridge == <<"b", "r", "i", "d", "g", "e">>
L_vlan == <<"v", "l", "a", "n">>
L_bond == <<"b", "o", "n", "d">>

\* PhysicalAction.__init__
PhysicalInit(options) ==
    VariantInit("PhysicalAction", L_physical, {"mac_address"},
                "{} requires a valid mac_address attr", <<"mac_address">>, options)

\* BridgeAction.__init__
BridgeInit(options) ==
    VariantInit("BridgeAction", L_bridge, {"bridge_interfaces"},
                "{} requires bridge_interfaces attr", <<"bridge_interfaces">>, options)

\* VlanAction.__init__
VlanInit(options) ==
    VariantInit("VlanAction", L_vlan, {"vlan_id", "vlan_link"},
                "{} requires vlan_id and vlan_link attr", <<"vlan_id", "vlan_link">>,
                options)

\* BondAction.__init__
BondInit(options) ==
    VariantInit("BondAction", L_bond, {"bond_interfaces"},
                "{} requires bond_interfaces attr", <<"bond_interfaces">>, options)

NetClasses == {"PhysicalAction", "BridgeAction", "VlanAction", "BondAction"}

\* cls(**options)
NetInit(cls, options) ==
    CASE cls = "PhysicalAction" -> PhysicalInit(options)
      [] cls = "BridgeAction" -> BridgeInit(options)
      [] cls = "VlanAction" -> VlanInit(options)
      [] OTHER -> BondInit(options)

\* ------------------------------------------------------------ transforms
\* heap[a] is the dict object at address a, a function from its keys to
\* values; Obj(a) is a reference to it.  A function of this section returns
\* the heap it leaves and the address of the object it returns.

Obj(a) == [t |-> "obj", v |-> a]

\* the addresses h[a] refers to
Refs(h, a) == {h[a][k].v : k \in {x \in DOMAIN h[a] : h[a][x].t = "obj"}}

RECURSIVE Closure(_, _)
Closure(h, A) ==
    LET B == A \cup UNION {Refs(h, a) : a \in A}
    IN  IF B = A THEN A ELSE Closure(h, B)

\* the objects reachable from h[a], itself included
Reach(h, a) == Closure(h, {a})

\* d without key k
DelItem(d, k) == [x \in DOMAIN d \ {k} |-> d[x]]

\* copy.deepcopy(h[a]): every object reachable from h[a] is copied once to
\* a fresh address, and the references among the copies follow the originals
deepcopy(h, a) ==
    LET R == Reach(h, a)
        new(r) == Len(h) + Cardinality({x \in R : x <= r})
        copy(r) == [k \in DOMAIN h[r] |->
                      IF h[r][k].t = "obj" THEN Obj(new(h[r][k].v)) ELSE h[r][k]]
        old(n) == CHOOSE r \in R : new(r) = n
    IN  [heap |-> [n \in 1..(Len(h) + Cardinality(R)) |->
                      IF n <= Len(h) THEN h[n] ELSE copy(old(n))],
         addr |-> new(a)]

\* mutant: the input itself is updated and returned
preserve_action_InPlace(h, action) ==
    [heap |-> [h EXCEPT ![action] = SetItem(h[action], "preserve", TrueV)],
     addr |-> action]

\* preserve_action(action)
preserve_action(h, action) ==
    LET c == deepcopy(h, action)
    IN  [heap |-> [c.heap EXCEPT ![c.addr] = SetItem(c.heap[c.addr], "preserve", TrueV)],
         addr |-> c.addr]

\* mutant: the copy is returned with the key still in it
release_action_KeepKey(h, action) == deepcopy(h, action)

\* release_action(action)
release_action(h, action) ==
    LET c == deepcopy(h, action)
    IN  IF "preserve" \in DOMAIN h[action]
        THEN [heap |-> [c.heap EXCEPT ![c.addr] = DelItem(c.heap[c.addr], "preserve")],
              addr |-> c.addr]
        ELSE c

\* ------------------------------------------------------------ the caller
\* The caller is synchronous: it makes one call, takes what the call
\* returned or raised (last), and only then makes the next one.

NoCall ==
    [op |-> "none", args |-> <<>>, status |-> "none", msg |-> <<>>, node |-> 0,
     result |-> NoResult]

Idle == last = NoCall

\* the caller holds no network action
NoNode == [kind |-> "none", attrs |-> <<>>]

\* the caller takes the result of the call
Return ==
    /\ last # NoCall
    /\ last' = NoCall
    /\ UNCHANGED <<nodes, netnode, heap>>

\* ------------------------------------------------- storage: caller's inputs

DiskIds == {StrV(<<"s", "d", "a">>), StrV(<<"s", "d", "b">>)}
DiskModel == StrV(<<"Q", "E", "M", "U">>)
DiskSerial == StrV(<<"S", "1">>)
WipeInputs == {NoneV}
\* the objects a caller can pass as a parent: a constructed node, or None
ParentInputs == {Ref(i) : i \in 1..Len(nodes)} \cup {NoneV}
IntPartnums == {IntV(1), IntV(2)}
IntOffsets == {IntV(0)}
IntSizes == {IntV(1048576)}
RawPartnums == IntPartnums \cup {StrV(<<"2">>), StrV(<<"x">>)}
RawOffsets == IntOffsets \cup {NoneV}
RawSizes == IntSizes \cup {StrV(<<"1", "M">>)}
FlagsInputs == {NoneV, StrV(L_bios_grub)}
BcacheNumInputs == {IntV(0), StrV(<<"0", "1">>)}
FstypeInputs ==
    {StrV(<<"f", "a", "t", "3", "2">>),
     StrV(<<"l", "i", "n", "u", "x", "-", "s", "w", "a", "p", "(", "v", "1", ")">>),
     StrV(<<"e", "x", "t", "4">>)}
PathInputs == {StrV(<<"/">>)}

\* A constructor call: on success the new object is the caller's next node,
\* on an exception no object exists.
Construct(op, kind, args, r) ==
    /\ r.status = "ok" => Len(nodes) < MaxNodes
    /\ nodes' = IF r.status = "ok"
                THEN Append(nodes, [kind |-> kind, attrs |-> r.attrs])
                ELSE nodes
    /\ last' = [op |-> op, args |-> args, status |-> r.status, msg |-> r.msg,
                node |-> IF r.status = "ok" THEN Len(nodes) + 1 ELSE 0,
                result |-> NoResult]
    /\ UNCHANGED <<netnode, heap>>

NewDisk ==
    /\ Idle
    /\ \E id \in DiskIds, wipe \in WipeInputs :
            Construct("DiskAction", "disk", [action_id |-> id, wipe |-> wipe],
                      DiskInit(id, DiskModel, DiskSerial, StrV(L_gpt), wipe))

PartitionCall(parent, partnum, offset, size, flags) ==
    Construct("PartitionAction", "partition",
              [parent |-> parent, partnum |-> partnum, offset |-> offset,
               size |-> size, flags |-> flags],
              PartitionInit(parent, partnum, offset, size, flags))

\* PartitionAction(...) with integer geometry
NewPartition ==
    /\ Idle
    /\ \E parent \in ParentInputs, partnum \in IntPartnums, offset \in IntOffsets,
          size \in IntSizes, flags \in FlagsInputs :
            PartitionCall(parent, partnum, offset, size, flags)

\* PartitionAction(...) with geometry of any type
NewPartitionRaw ==
    /\ Idle
    /\ \E parent \in ParentInputs, partnum \in RawPartnums, offset \in RawOffsets,
          size \in RawSizes, flags \in FlagsInputs :
            PartitionCall(parent, partnum, offset, size, flags)

NewBcache ==
    /\ Idle
    /\ \E backing_id \in ParentInputs, cache_id \in ParentInputs,
          bcache_num \in BcacheNumInputs :
            Construct("BcacheAction", "bcache",
                      [backing_id |-> backing_id, cache_id |-> cache_id,
                       bcache_num |-> bcache_num],
                      BcacheInit(backing_id, cache_id, bcache_num))

NewFormat ==
    /\ Idle
    /\ \E parent \in ParentInputs, fstype \in FstypeInputs :
            Construct("FormatAction", "format", [parent |-> parent, fstype |-> fstype],
                      FormatInit(parent, fstype))

NewMount ==
    /\ Idle
    /\ \E parent \in ParentInputs, path \in PathInputs :
            Construct("MountAction", "mount", [parent |-> parent, path |-> path],
                      MountInit(parent, path))

\* nodes[i].get()
Get ==
    /\ Idle
    /\ \E i \in 1..Len(nodes) :
        LET r == StorageGet(nodes[i])
        IN  /\ last' = [op |-> "get", args |-> [self |-> Ref(i)], status |-> r.status,
                        msg |-> <<>>, node |-> i, result |-> r]
            /\ UNCHANGED <<nodes, netnode, heap>>

\* ------------------------------------------------- network: caller's inputs

Absent == [t |-> "absent", v |-> 0]

TypeInputs == {Absent, StrV(L_physical), StrV(L_bridge), StrV(L_vlan), StrV(L_bond)}
NameInputs == {Absent, StrV(<<>>), StrV(<<"e", "t", "h", "0">>)}
VlanIdInputs == {Absent, IntV(10), StrV(<<"a", "b", "c">>)}
\* the options that are supplied with one value or not at all
PlainOptions ==
    {"params", "subnets", "mac_address", "bridge_interfaces", "vlan_link",
     "bond_interfaces", "mtu", "_action_keys"}

PlainValue(k) ==
    CASE k = "mac_address" -> StrV(<<"5", "2", ":", "5", "4">>)
      [] k = "vlan_link" -> StrV(<<"e", "t", "h", "0">>)
      [] k = "mtu" -> IntV(1500)
      [] OTHER -> ListV(<<k>>)

\* the option bag with the given type, name and vlan_id (or without them) and
\* the plain options of K
Bag(type, name, vlan_id, K) ==
    LET given == [k \in {"type", "name", "vlan_id"} |->
                    CASE k = "type" -> type [] k = "name" -> name [] OTHER -> vlan_id]
        dom == {k \in DOMAIN given : given[k] # Absent} \cup K
    IN  [k \in dom |-> IF k \in K THEN PlainValue(k) ELSE given[k]]

\* cls(**options): the caller holds the object constructed
NetCall(cls, options) ==
    LET r == NetInit(cls, options)
    IN  /\ netnode' = IF r.status = "ok" THEN [kind |-> cls, attrs |-> r.attrs] ELSE NoNode
        /\ last' = [op |-> cls, args |-> [options |-> options], status |-> r.status,
                    msg |-> r.msg, node |-> IF r.status = "ok" THEN 1 ELSE 0,
                    result |-> NoResult]
        /\ UNCHANGED <<nodes, heap>>

NewNetAction ==
    /\ Idle
    /\ netnode = NoNode
    /\ \E cls \in NetClasses, type \in TypeInputs, name \in NameInputs,
          vlan_id \in VlanIdInputs, K \in SUBSET PlainOptions :
            NetCall(cls, Bag(type, name, vlan_id, K))

\* VlanAction(type='vlan', name='eth0', vlan_link='eth0'[, vlan_id=...])
NewVlan ==
    /\ Idle
    /\ netnode = NoNode
    /\ \E vlan_id \in VlanIdInputs :
            NetCall("VlanAction",
                    Bag(StrV(L_vlan), StrV(<<"e", "t", "h", "0">>), vlan_id, {"vlan_link"}))

\* netnode.get()
NetGet ==
    /\ Idle
    /\ netnode # NoNode
    /\ LET r == NetActionGet(netnode)
       IN  last' = [op |-> "NetAction.get", args |-> <<>>, status |-> r.status,
                    msg |-> <<>>, node |-> 1, result |-> r]
    /\ UNCHANGED <<nodes, netnode, heap>>

\* the caller drops the network action it holds
Discard ==
    /\ Idle
    /\ netnode # NoNode
    /\ netnode' = NoNode
    /\ UNCHANGED <<nodes, heap, last>>

\* ---------------------------------------------- transforms: caller's inputs

ASampleDisk == [kind |-> "disk",
                attrs |-> DiskInit(StrV(<<"s", "d", "a">>), DiskModel, DiskSerial,
                                   StrV(L_gpt), NoneV).attrs]

\* the serialized actions a caller holds: the mapping a disk's get() returns,
\* the same mapping written with preserve: false, and a network action's
\* mapping whose subnets value is itself a dict
Serialized ==
    {<<DiskGet(ASampleDisk).v>>,
     <<SetItem(DiskGet(ASampleDisk).v, "preserve", FalseV)>>,
     <<[k \in {"type"} |-> StrV(<<"d", "h", "c", "p">>)],
       [k \in {"type", "name", "subnets"} |->
           CASE k = "type" -> StrV(L_physical)
             [] k = "name" -> StrV(<<"e", "t", "h", "0">>)
             [] OTHER -> Obj(1)]>>}

\* objs with its references moved by n addresses
Rebase(objs, n) ==
    [i \in 1..Len(objs) |->
        [k \in DOMAIN objs[i] |->
            IF objs[i][k].t = "obj" THEN Obj(objs[i][k].v + n) ELSE objs[i][k]]]

\* the caller obtains a serialized action
NewMapping ==
    /\ Idle
    /\ \E objs \in Serialized :
          /\ Len(heap) + Len(objs) <= MaxObjs
          /\ heap' = heap \o Rebase(objs, Len(heap))
    /\ UNCHANGED <<nodes, netnode, last>>

\* a call f(heap[a]) of a transform function, which leaves the heap r.heap and
\* returns the object at r.addr
Transform(op, a, r) ==
    /\ Len(r.heap) <= MaxObjs
    /\ heap' = r.heap
    /\ last' = [op |-> op, args |-> [action |-> Obj(a), heap |-> heap], status |-> "ok",
                msg |-> <<>>, node |-> 0, result |-> Returns(Obj(r.addr))]
    /\ UNCHANGED <<nodes, netnode>>

Preserve ==
    /\ Idle
    /\ \E a \in 1..Len(heap) : Transform("preserve_action", a, preserve_action(heap, a))

Release ==
    /\ Idle
    /\ \E a \in 1..Len(heap) : Transform("release_action", a, release_action(heap, a))

\* ------------------------------------------------------- specifications

Init ==
    /\ nodes = <<>>
    /\ netnode = NoNode
    /\ heap = <<>>
    /\ last = NoCall

NextStorage ==
    NewDisk \/ NewPartition \/ NewBcache \/ NewFormat \/ NewMount \/ Get \/ Return

SpecStorage == Init /\ [][NextStorage]_vars

NextNet == NewNetAction \/ NetGet \/ Discard \/ Return

SpecNet == Init /\ [][NextNet]_vars

NextTransform == NewMapping \/ Preserve \/ Release \/ Return

SpecTransform == Init /\ [][NextTransform]_vars

NextCoerce == NewDisk \/ NewPartitionRaw \/ Get \/ NewVlan \/ NetGet \/ Discard \/ Return

SpecCoerce == Init /\ [][NextCoerce]_vars

\* ------------------------------------------------------ storage: claims

IdOf(i) == PyStr(nodes[i].attrs["_action_id"])

Constructed(op) == last.op = op /\ last.status = "ok"

GotKind(kind) == last.op = "get" /\ last.status = "ok" /\ nodes[last.node].kind = kind

\* C3: a Partition's action_id is the parent's action_id, then the decimal
\* partnum, then "_part"; with flags == 'bios_grub' it is the literal
\* 'bios_boot_partition' whatever the parent and partnum; the 'id' of the
\* partition's serialized mapping is that action_id.
C3_PartitionActionId ==
    /\ Constructed("PartitionAction") =>
          IdOf(last.node) =
              IF last.args.flags = StrV(L_bios_grub)
              THEN L_bios_boot_partition
              ELSE IdOf(last.args.parent.v) \o StrInt(PyInt(last.args.partnum).v) \o L_part
    /\ GotKind("partition") =>
          LET a == nodes[last.node].attrs
          IN  /\ last.result.v["id"] = StrV(IdOf(last.node))
              /\ last.result.v["id"] =
                    IF a["flags"] = StrV(L_bios_grub)
                    THEN StrV(L_bios_boot_partition)
                    ELSE StrV(IdOf(a["parent"].v) \o StrInt(a["partnum"].v) \o L_part)

\* a bios_grub partition beside an ordinary one on the same disk, serialized
C3_Witness ==
    /\ GotKind("partition")
    /\ nodes[last.node].attrs["flags"] = StrV(L_bios_grub)
    /\ last.result.v["id"] = StrV(L_bios_boot_partition)
    /\ \E j \in 1..Len(nodes) :
          /\ nodes[j].kind = "partition"
          /\ nodes[j].attrs["flags"] = NoneV
          /\ nodes[j].attrs["parent"] = nodes[last.node].attrs["parent"]
          /\ IdOf(j) = <<"s", "d", "a", "1", "_", "p", "a", "r", "t">>

\* C4: a Format's action_id is the parent's action_id then "_fmt"; for an
\* fstype starting with 'fat' it is the first 11 characters of that (so at most
\* 11 long); for an fstype starting with 'linux-swap' the serialized fstype is
\* 'swap' and the id is not cut; for any other fstype the serialized fstype is
\* the one supplied.
C4_FormatActionId ==
    /\ Constructed("FormatAction") =>
          LET full == IdOf(last.args.parent.v) \o L_fmt
              fs == last.args.fstype.v
              id == IdOf(last.node)
          IN  /\ StartsWith(fs, L_fat) =>
                    /\ Len(id) <= 11
                    /\ Len(id) = Min(11, Len(full))
                    /\ \A k \in 1..Len(id) : id[k] = full[k]
              /\ ~StartsWith(fs, L_fat) => id = full
              /\ nodes[last.node].attrs["_fstype"] =
                    IF StartsWith(fs, L_linux_swap) THEN StrV(L_swap) ELSE StrV(fs)
    /\ GotKind("format") =>
          /\ last.result.v["fstype"] = nodes[last.node].attrs["_fstype"]
          /\ last.result.v["id"] = StrV(IdOf(last.node))

\* a fat32 Format of partition sda1_part: sda1_part_fmt cut to sda1_part_f
C4_Witness ==
    /\ Constructed("FormatAction")
    /\ last.args.fstype = StrV(<<"f", "a", "t", "3", "2">>)
    /\ IdOf(last.args.parent.v) = <<"s", "d", "a", "1", "_", "p", "a", "r", "t">>
    /\ IdOf(last.node) = <<"s", "d", "a", "1", "_", "p", "a", "r", "t", "_", "f">>

ParentedOps == {"PartitionAction", "FormatAction", "MountAction"}

\* the call constructs a Partition, Format or Mount on a parent that has no
\* action_id accessor
BadParentCall == last.op \in ParentedOps /\ last.args.parent.t # "ref"

\* C8 as stated: with a parent that lacks an action_id accessor the
\* construction of a Partition, Format or Mount completes, and the attribute
\* error appears when the node is serialized.
C8_ErrorAtSerialization == BadParentCall => last.status = "ok"

\* C8 as amended: with such a parent the constructor itself raises the
\* attribute error and no node is constructed; get() of a constructed node
\* never raises.
C8_ErrorAtConstruction ==
    /\ BadParentCall => (last.status = "AttributeError" /\ last.node = 0)
    /\ last.op = "get" => last.status = "ok"

\* a Mount constructed on None, after a disk exists
C8_Witness ==
    /\ last.op = "MountAction"
    /\ last.args.parent = NoneV
    /\ last.status = "AttributeError"
    /\ Len(nodes) > 0

Discriminator(n) ==
    CASE n.kind = "partition" -> n.attrs["partnum"]
      [] n.kind = "bcache" -> n.attrs["bcachenum"]
      [] OTHER -> NoneV

\* the disks have pairwise distinct action_ids, and no two nodes of one variant
\* share both their parent and their discriminating fields
WellFormedGraph ==
    \A i, j \in 1..Len(nodes) :
        (i # j /\ nodes[i].kind = nodes[j].kind) =>
            IF nodes[i].kind = "disk"
            THEN IdOf(i) # IdOf(j)
            ELSE ~(/\ nodes[i].attrs["parent"] = nodes[j].attrs["parent"]
                   /\ Discriminator(nodes[i]) = Discriminator(nodes[j]))

\* C10: in such a graph the action_ids of all constructed storage actions are
\* pairwise distinct.
C10_DistinctIds ==
    WellFormedGraph => \A i, j \in 1..Len(nodes) : i # j => IdOf(i) # IdOf(j)

\* ------------------------------------------------------ network: claims

NetCalled == last.op \in NetClasses

TypeOf(cls) ==
    CASE cls = "PhysicalAction" -> L_physical
      [] cls = "BridgeAction" -> L_bridge
      [] cls = "VlanAction" -> L_vlan
      [] OTHER -> L_bond

RequiredOf(cls) ==
    CASE cls = "PhysicalAction" -> {"mac_address"}
      [] cls = "BridgeAction" -> {"bridge_interfaces"}
      [] cls = "VlanAction" -> {"vlan_id", "vlan_link"}
      [] OTHER -> {"bond_interfaces"}

RequiresFmt(cls) ==
    CASE cls = "PhysicalAction" -> "{} requires a valid mac_address attr"
      [] cls = "BridgeAction" -> "{} requires bridge_interfaces attr"
      [] cls = "VlanAction" -> "{} requires vlan_id and vlan_link attr"
      [] OTHER -> "{} requires bond_interfaces attr"

DeclaredKeys(cls) == {"type", "name", "params", "subnets"} \cup RequiredOf(cls)

TypeBad(cls, o) == "type" \notin DOMAIN o \/ o["type"] # StrV(TypeOf(cls))
NameBad(o) == "name" \notin DOMAIN o \/ o["name"] = StrV(<<>>)
FieldMissing(cls, o) == \E k \in RequiredOf(cls) : k \notin DOMAIN o

\* C1: construction of a network variant fails iff the type option is absent
\* or not the variant's literal, or the name is absent or empty, or a
\* variant-required field is absent; the checks run in the order type, name,
\* required fields, and the first that fails decides the error raised.
C1_ValidationOrder ==
    NetCalled =>
        LET cls == last.op
            o == last.args.options
        IN  /\ last.status = "ok" <=>
                  ~(TypeBad(cls, o) \/ NameBad(o) \/ FieldMissing(cls, o))
            /\ last.status = "ok" => netnode.kind = cls
            /\ last.status # "ok" => (last.status = "Exception" /\ netnode = NoNode)
            /\ TypeBad(cls, o) => last.msg = <<"Invalid type for {}", cls>>
            /\ (~TypeBad(cls, o) /\ NameBad(o)) =>
                  last.msg = <<"Invalid name for {}", cls>>
            /\ (~TypeBad(cls, o) /\ ~NameBad(o) /\ FieldMissing(cls, o)) =>
                  last.msg = <<RequiresFmt(cls), cls>>

\* a Vlan with a wrong type and an empty name and no vlan_link: the type error
C1_Witness ==
    /\ last.op = "VlanAction"
    /\ TypeBad("VlanAction", last.args.options)
    /\ "type" \in DOMAIN last.args.options
    /\ NameBad(last.args.options)
    /\ "name" \in DOMAIN last.args.options
    /\ FieldMissing("VlanAction", last.args.options)
    /\ "vlan_id" \in DOMAIN last.args.options
    /\ last.msg = <<"Invalid type for {}", "VlanAction">>

\* C2: get() of a constructed network action returns exactly the supplied
\* options whose names are declared keys of the variant (type, name, params,
\* subnets and the variant's extension keys), each with the value supplied;
\* every other option is dropped.
C2_DeclaredKeysOnly ==
    /\ (NetCalled /\ last.status = "ok") =>
          LET o == last.args.options
          IN  /\ DOMAIN netnode.attrs = DOMAIN o \cup {"_action_keys"}
              /\ \A k \in DOMAIN o \ {"_action_keys"} : netnode.attrs[k] = o[k]
    /\ last.op = "NetAction.get" =>
          LET supplied == DOMAIN netnode.attrs \ {"_action_keys"}
              got == last.result.v
          IN  /\ last.status = "ok"
              /\ DOMAIN got = supplied \cap DeclaredKeys(netnode.kind)
              /\ \A k \in DOMAIN got : got[k] = netnode.attrs[k]

\* a Physical action given params, an undeclared mtu, another variant's
\* vlan_id and an _action_keys option, serialized
C2_Witness ==
    /\ last.op = "NetAction.get"
    /\ netnode.kind = "PhysicalAction"
    /\ {"mtu", "vlan_id", "params"} \subseteq DOMAIN netnode.attrs
    /\ "subnets" \notin DOMAIN netnode.attrs
    /\ DOMAIN last.result.v = {"type", "name", "params", "mac_address"}

\* ----------------------------------------------------- coercion: claims

IsNumeric(x) ==
    \/ x.t = "int"
    \/ x.t = "str" /\ Len(x.v) > 0 /\ \A i \in 1..Len(x.v) : IsDigit(x.v[i])

NonNumericGeometry ==
    /\ last.op = "PartitionAction"
    /\ \E f \in {"partnum", "offset", "size"} : ~IsNumeric(last.args[f])

NonNumericVlanId ==
    /\ last.op = "VlanAction"
    /\ "vlan_id" \in DOMAIN last.args.options
    /\ ~IsNumeric(last.args.options["vlan_id"])

\* C9 as stated: a non-numeric partnum, offset or size of a Partition, or a
\* non-numeric vlan_id of a Vlan, makes the construction call fail.
C9_NonNumericRejected ==
    (NonNumericGeometry \/ NonNumericVlanId) => last.status # "ok"

\* C9 as amended: a non-numeric partnum, offset or size makes the Partition's
\* construction fail and every constructed Partition holds integers there; a
\* Vlan's vlan_id is only required to be present, and is kept and serialized
\* as supplied, numeric or not.
C9_GeometryCoercedVlanIdKept ==
    /\ NonNumericGeometry =>
          (last.status \in {"ValueError", "TypeError"} /\ last.node = 0)
    /\ \A i \in 1..Len(nodes) :
          nodes[i].kind = "partition" =>
              \A f \in {"partnum", "_offset", "_size"} : nodes[i].attrs[f].t = "int"
    /\ (/\ last.op = "VlanAction"
        /\ ~TypeBad("VlanAction", last.args.options)
        /\ ~NameBad(last.args.options)
        /\ ~FieldMissing("VlanAction", last.args.options)) =>
          (last.status = "ok" /\ netnode.attrs["vlan_id"] = last.args.options["vlan_id"])
    /\ (last.op = "NetAction.get" /\ netnode.kind = "VlanAction") =>
          last.result.v["vlan_id"] = netnode.attrs["vlan_id"]

\* a Vlan constructed with vlan_id 'abc' and serialized with it, beside a
\* constructed Partition
C9_Witness ==
    /\ last.op = "NetAction.get"
    /\ netnode.kind = "VlanAction"
    /\ last.result.v["vlan_id"] = StrV(<<"a", "b", "c">>)
    /\ \E i \in 1..Len(nodes) : nodes[i].kind = "partition"

\* ---------------------------------------------------- transforms: claims

\* the value of h[a] as Python's == compares dicts: by keys and values, the
\* nested dicts by their own value
RECURSIVE Value(_, _)
Value(h, a) ==
    [k \in DOMAIN h[a] |->
        IF h[a][k].t = "obj" THEN [t |-> "dict", v |-> Value(h, h[a][k].v)] ELSE h[a][k]]

Transformed(op) == last.op = op

\* the heap before the call, the input's address and the result's address
Before == last.args.heap
Input == last.args.action.v
Output == last.result.v.v

\* the call wrote to no object that existed before it, and what it returned
\* shares no object with them
InputUntouched ==
    /\ \A a \in 1..Len(Before) : heap[a] = Before[a]
    /\ Reach(heap, Output) \cap (1..Len(Before)) = {}

\* C6: preserve(action) returns a new mapping equal to the input except that
\* 'preserve' is present with value true (set if absent, overwritten if
\* present); the input and its nested values are unchanged; preserve applied
\* twice gives what preserve applied once gives.
C6_PreserveSetsMarker ==
    Transformed("preserve_action") =>
        /\ InputUntouched
        /\ Value(heap, Output) = SetItem(Value(Before, Input), "preserve", TrueV)
        /\ LET twice == preserve_action(heap, Output)
           IN  Value(twice.heap, twice.addr) = Value(heap, Output)

\* preserve of the mapping written with preserve: false, whose marker is
\* overwritten in the copy and kept in the input
C6_Witness ==
    /\ Transformed("preserve_action")
    /\ "preserve" \in DOMAIN Before[Input]
    /\ heap[Input]["preserve"] = FalseV
    /\ heap[Output]["preserve"] = TrueV
    /\ Output # Input

\* C7: release(action) returns a new mapping equal to the input with
\* 'preserve' removed, equal to the input (and no error) when 'preserve' is
\* absent; the input is unchanged; release(preserve(x)) == x for every
\* serialized action x that carries no 'preserve' key.
C7_ReleaseRemovesMarker ==
    /\ Transformed("release_action") =>
          /\ last.status = "ok"
          /\ InputUntouched
          /\ Value(heap, Output) = DelItem(Value(Before, Input), "preserve")
          /\ "preserve" \notin DOMAIN Before[Input] =>
                Value(heap, Output) = Value(Before, Input)
    /\ \A x \in 1..Len(heap) :
          "preserve" \notin DOMAIN heap[x] =>
              LET p == preserve_action(heap, x)
                  r == release_action(p.heap, p.addr)
              IN  Value(r.heap, r.addr) = Value(heap, x)

\* release of what preserve returned for a mapping with a nested dict: the
\* result equals the first mapping
C7_Witness ==
    /\ Transformed("release_action")
    /\ "preserve" \in DOMAIN Before[Input]
    /\ Before[Input]["preserve"] = TrueV
    /\ "preserve" \notin DOMAIN heap[Output]
    /\ \E x \in 1..Len(Before) :
          /\ x # Input
          /\ "preserve" \notin DOMAIN heap[x]
          /\ Refs(heap, x) # {}
          /\ Value(heap, x) = Value(heap, Output)

====
